---- MODULE Spec2Model ----
(***************************************************************************)
(* OutputTextEdit (qt/src/OutputTextEdit.cc): the working region, the      *)
(* incremental find/replace and the bulk replace of the output text widget *)
(*                                                                         *)
(* The document is a sequence of one-character strings.  A cursor is a     *)
(* record [anchor, position] of offsets 0..Len(doc); the null QTextCursor  *)
(* is [anchor |-> -1, position |-> -1].  Paragraph separators are "\n" in  *)
(* the document and "PS" (U+2029) in QTextCursor::selectedText().          *)
(***************************************************************************)
EXTENDS Integers, Sequences, FiniteSets, TLC

VARIABLES doc, cur, m_regionCursor, m_entireRegion, focus, pc, call, ret, loop, prevZw,
          saved

vars == <<doc, cur, m_regionCursor, m_entireRegion, focus, pc, call, ret, loop, prevZw, saved>>

(* ------------------------------ bounds --------------------------------- *)

MaxDocLen == 3

(* ----------------------- characters and strings ------------------------ *)

NL == "\n"
PS == "PS"

TypedChars == {"a", " ", NL}

EmptyStr == << >>

SearchStrs == {EmptyStr, <<"a">>, <<"a", " ">>, <<".", "*">>}

ReplaceStrs == {EmptyStr, <<" ", "a">>}

Min(a, b) == IF a < b THEN a ELSE b

Max(a, b) == IF a > b THEN a ELSE b

(* QChar::isSpace, as QRegExp("\\s") uses it *)
IsSpace(c) == c \in {" ", NL, PS}

(* case folding of Qt::CaseInsensitive / CaseInsensitiveOption *)
Fold(c) == IF c = "A" THEN "a" ELSE c

(* ------------------------------ cursors -------------------------------- *)

NullCursor == [anchor |-> -1, position |-> -1]

Cursor(a, p) == [anchor |-> a, position |-> p]

isNull(c) == c.position = -1

hasSelection(c) == c.anchor # c.position

selectionStart(c) == Min(c.anchor, c.position)

selectionEnd(c) == Max(c.anchor, c.position)

(* QTextCursor::selectedText: paragraph separators come out as U+2029 *)
selectedText(text, c) ==
    LET s == selectionStart(c)
        e == selectionEnd(c)
    IN [i \in 1..(e - s) |-> IF text[s + i] = NL THEN PS ELSE text[s + i]]

(* ------------------------------ blocks --------------------------------- *)

(* position of the first character of the block that holds offset p *)
BlockStart(text, p) ==
    LET starts == {i \in 0..p : i = 0 \/ text[i] = NL}
    IN CHOOSE i \in starts : \A j \in starts : j <= i

(* offset of the end of the text of the block that holds offset p *)
BlockEnd(text, p) ==
    LET ends == {j \in p..Len(text) : j = Len(text) \/ text[j + 1] = NL}
    IN CHOOSE j \in ends : \A k \in ends : j <= k


atBlockEnd(text, c) == ~isNull(c) /\ BlockEnd(text, c.position) = c.position

positionInBlock(text, c) == c.position - BlockStart(text, c.position)

(* -------------------- QRegularExpression (PCRE subset) ------------------ *)
(* Patterns are sequences of atoms: a literal character or "." (any        *)
(* character but a line feed), each optionally followed by a greedy "*".   *)

isValid(pattern) ==
    \A i \in 1..Len(pattern) :
        pattern[i] = "*" => (i > 1 /\ pattern[i - 1] # "*")

RECURSIVE Atoms(_, _)
Atoms(pattern, i) ==
    IF i > Len(pattern) THEN << >>
    ELSE IF i < Len(pattern) /\ pattern[i + 1] = "*"
         THEN <<[ch |-> pattern[i], star |-> TRUE]>> \o Atoms(pattern, i + 2)
         ELSE <<[ch |-> pattern[i], star |-> FALSE]>> \o Atoms(pattern, i + 1)

(* one atom against one subject character; ci is CaseInsensitiveOption *)
AtomMatches(a, c, ci) ==
    IF a = "." THEN c # NL
    ELSE IF ci THEN Fold(a) = Fold(c) ELSE a = c

(* how many consecutive characters after offset i the atom a accepts *)
RECURSIVE Run(_, _, _, _)
Run(a, text, i, ci) ==
    IF i < Len(text) /\ AtomMatches(a, text[i + 1], ci)
    THEN 1 + Run(a, text, i + 1, ci)
    ELSE 0

(* end offset of the match of atoms k.. anchored at offset i, or -1;       *)
(* a star takes the longest run first and gives back one at a time         *)
RECURSIVE MatchHere(_, _, _, _, _)
RECURSIVE GiveBack(_, _, _, _, _, _)
MatchHere(atoms, k, text, i, ci) ==
    IF k > Len(atoms) THEN i
    ELSE IF atoms[k].star
         THEN GiveBack(atoms, k, text, i, Run(atoms[k].ch, text, i, ci), ci)
         ELSE IF i < Len(text) /\ AtomMatches(atoms[k].ch, text[i + 1], ci)
              THEN MatchHere(atoms, k + 1, text, i + 1, ci)
              ELSE -1

GiveBack(atoms, k, text, i, n, ci) ==
    LET r == MatchHere(atoms, k + 1, text, i + n, ci)
    IN IF r >= 0 THEN r
       ELSE IF n = 0 THEN -1
       ELSE GiveBack(atoms, k, text, i, n - 1, ci)

NoMatch == [start |-> -1, end |-> -1]

(* the leftmost match that starts at offset >= from *)
RECURSIVE Leftmost(_, _, _, _)
Leftmost(atoms, text, from, ci) ==
    IF from > Len(text) THEN NoMatch
    ELSE LET e == MatchHere(atoms, 1, text, from, ci)
         IN IF e >= 0 THEN [start |-> from, end |-> e]
            ELSE Leftmost(atoms, text, from + 1, ci)

(* QRegularExpression::match(subject, offset): an invalid pattern or an    *)
(* offset outside 0..length gives no match                                 *)
match(pattern, subject, offset, ci) ==
    IF ~isValid(pattern) \/ offset < 0 \/ offset > Len(subject) THEN NoMatch
    ELSE Leftmost(Atoms(pattern, 1), subject, offset, ci)

hasMatch(m) == m.start >= 0

(* QString::indexOf(QRegularExpression, from) *)
RegexIndexOf(pattern, text, from, ci) == match(pattern, text, from, ci)

(* QRegularExpressionMatchIterator: the match after m; after an empty      *)
(* match a non-empty one anchored at the same offset is tried first, then  *)
(* the search resumes one character further                                *)
nextMatch(pattern, text, m, ci) ==
    IF m.end > m.start THEN match(pattern, text, m.end, ci)
    ELSE LET e == MatchHere(Atoms(pattern, 1), 1, text, m.end, ci)
         IN IF e > m.end THEN [start |-> m.end, end |-> e]
            ELSE match(pattern, text, m.end + 1, ci)

(* QString::lastIndexOf(QRegularExpression, from): walks globalMatch and   *)
(* keeps the last match whose start is < from + 1                          *)
RECURSIVE LastBefore(_, _, _, _, _, _)
LastBefore(pattern, text, m, endpos, best, ci) ==
    IF ~hasMatch(m) \/ m.start >= endpos THEN best
    ELSE LastBefore(pattern, text, nextMatch(pattern, text, m, ci), endpos, m, ci)

RegexLastIndexOf(pattern, text, from, ci) ==
    LastBefore(pattern, text, match(pattern, text, 0, ci), from + 1, NoMatch, ci)

(* QString::indexOf(QString, from, cs) for a non-empty needle *)
RECURSIVE StringIndexOf(_, _, _, _)
StringIndexOf(needle, text, from, ci) ==
    IF from + Len(needle) > Len(text) THEN -1
    ELSE IF \A i \in 1..Len(needle) :
                IF ci THEN Fold(text[from + i]) = Fold(needle[i])
                ELSE text[from + i] = needle[i]
         THEN from
         ELSE StringIndexOf(needle, text, from + 1, ci)

(* --------------------------- QTextDocument::find ----------------------- *)

FindBackward == 1

FindCaseSensitively == 2

(* QTextDocument::FindFlags as the integer the QFlags converts to *)
FindFlags(backwards, matchCase) ==
    (IF backwards THEN FindBackward ELSE 0)
    + (IF matchCase THEN FindCaseSensitively ELSE 0)

(* forward: the block of pos from its offset, then each next block from 0 *)
RECURSIVE findForward(_, _, _, _)
findForward(pattern, text, pos, ci) ==
    LET bs == BlockStart(text, pos)
        be == BlockEnd(text, pos)
        m  == RegexIndexOf(pattern, SubSeq(text, bs + 1, be), pos - bs, ci)
    IN IF hasMatch(m) THEN Cursor(bs + m.start, bs + m.end)
       ELSE IF be = Len(text) THEN NullCursor
       ELSE findForward(pattern, text, be + 1, ci)

(* backward: the block of pos up to its offset, then each previous block   *)
(* from its length - 1, which is the offset of its separator               *)
RECURSIVE findBackward(_, _, _, _)
findBackward(pattern, text, pos, ci) ==
    LET bs == BlockStart(text, pos)
        be == BlockEnd(text, pos)
        m  == RegexLastIndexOf(pattern, SubSeq(text, bs + 1, be), pos - bs, ci)
    IN IF hasMatch(m) THEN Cursor(bs + m.start, bs + m.end)
       ELSE IF bs = 0 THEN NullCursor
       ELSE findBackward(pattern, text, bs - 1, ci)

(* QTextDocument::find(QRegularExpression, QTextCursor, FindFlags) *)
find(pattern, text, c, backwards, matchCase) ==
    IF ~isValid(pattern) THEN NullCursor
    ELSE IF backwards
         THEN IF selectionStart(c) - 1 < 0 THEN NullCursor
              ELSE findBackward(pattern, text, selectionStart(c) - 1, ~matchCase)
         ELSE findForward(pattern, text, selectionEnd(c), ~matchCase)

(* QTextDocument::find(QString, QTextCursor, FindFlags), forward *)
RECURSIVE findStringForward(_, _, _, _)
findStringForward(needle, text, pos, ci) ==
    LET bs  == BlockStart(text, pos)
        be  == BlockEnd(text, pos)
        idx == StringIndexOf(needle, SubSeq(text, bs + 1, be), pos - bs, ci)
    IN IF idx >= 0 THEN Cursor(bs + idx, bs + idx + Len(needle))
       ELSE IF be = Len(text) THEN NullCursor
       ELSE findStringForward(needle, text, be + 1, ci)

findString(needle, text, c, matchCase) ==
    IF needle = EmptyStr THEN NullCursor
    ELSE findStringForward(needle, text, selectionEnd(c), ~matchCase)

(* ------------------------ edits and notifications ---------------------- *)

(* QTextCursor::insertText over the selection s..e: the new contents *)
insertText(text, s, e, r) == SubSeq(text, 1, s) \o r \o SubSeq(text, e + 1, Len(text))

(* QTextCursorPrivate::adjustPosition: an offset of another cursor after   *)
(* s..e was removed and n characters were inserted at s                    *)
adjustPosition(p, s, e, n) ==
    LET removed == IF p < s THEN p ELSE IF p < e THEN s ELSE p - (e - s)
    IN IF n > 0 /\ removed >= s THEN removed + n ELSE removed

adjustCursor(c, s, e, n) ==
    Cursor(adjustPosition(c.anchor, s, e, n), adjustPosition(c.position, s, e, n))

(* whether the edit makes the widget emit cursorPositionChanged or         *)
(* selectionChanged for its own cursor c; keep is QTextUndoCommand::       *)
(* KeepCursor, the removal of a selection whose position is its start      *)
editNotifies(c, s, e, n, keep) ==
    \/ e > s /\ (c.position > s \/ (c.position = s /\ ~keep))
    \/ n > 0 /\ adjustPosition(c.position, s, e, 0) >= s
    \/ adjustCursor(c, s, e, n) # c

(* QPlainTextEdit::setTextCursor: the signals fire when the cursor changes *)
setTextCursorNotifies(old, new) == new # old

(* ----------------------------- the region ------------------------------ *)

containsSpace(str) == \E i \in 1..Len(str) : IsSpace(str[i])

regionBounds(region) ==
    IF region.anchor > region.position
    THEN Cursor(region.position, region.anchor)
    ELSE region

(* the value m_entireRegion gets on the last line of saveRegionBounds *)
entireRegion(text, region) == region.anchor = 0 /\ region.position = Len(text)

(* faulty variant of saveRegionBounds: the text cursor is taken without the focus *)
saveRegionBoundsUnfocused(text, c, region, hasFocus) ==
    LET cleared == IF ~containsSpace(selectedText(text, c))
                   THEN Cursor(c.position, c.position)
                   ELSE c
    IN IF ~hasSelection(cleared) THEN Cursor(0, Len(text)) ELSE cleared

(* saveRegionBounds: the new m_regionCursor *)
saveRegionBounds(text, c, region, hasFocus) ==
    LET taken   == IF hasFocus THEN c ELSE region
        cleared == IF hasFocus /\ ~containsSpace(selectedText(text, taken))
                   THEN Cursor(taken.position, taken.position)
                   ELSE taken
    IN IF ~hasSelection(cleared) THEN Cursor(0, Len(text)) ELSE cleared

(* ----------------------------- findReplace ----------------------------- *)

(* line 106: regex.match(selectedText, flags): the flags arrive as the     *)
(* offset argument, and the pattern keeps its default case sensitivity     *)
sittingOnMatch(text, c, searchstr, backwards, matchCase) ==
    hasMatch(match(searchstr, selectedText(text, c),
                   FindFlags(backwards, matchCase), FALSE))

(* lines 116-119: step off the current match *)
stepOff(c, backwards) ==
    IF backwards
    THEN Cursor(Min(c.position, c.anchor), Min(c.position, c.anchor))
    ELSE Cursor(Max(c.position, c.anchor), Max(c.position, c.anchor))

(* line 134: the backward zero-width retry applies *)
stuckBackwards(text, selCursor, findcursor) ==
    /\ atBlockEnd(text, findcursor)
    /\ selCursor.anchor = positionInBlock(text, findcursor) + 1

(* line 147: the forward zero-width retry applies *)
stuckForwards(text, selCursor, findcursor) ==
    atBlockEnd(text, findcursor) /\ atBlockEnd(text, selCursor)

(* lines 141 and 151-157: where the retry searches from *)
skipPosition(selCursor, regionCursor, backwards) ==
    IF backwards
    THEN Max(selCursor.position - 1, regionCursor.anchor)
    ELSE IF selCursor.position + 1 >= regionCursor.position
         THEN regionCursor.anchor
         ELSE selCursor.position + 1

(* lines 128-164: the first search and the zero-width retry *)
firstFind(text, selCursor, regionCursor, backwards, matchCase, searchstr) ==
    LET findcursor == find(searchstr, text, selCursor, backwards, matchCase)
        stuck == /\ findcursor.position = findcursor.anchor
                 /\ IF backwards
                    THEN stuckBackwards(text, selCursor, findcursor)
                    ELSE stuckForwards(text, selCursor, findcursor)
        moved == Cursor(skipPosition(selCursor, regionCursor, backwards),
                        skipPosition(selCursor, regionCursor, backwards))
    IN IF stuck
       THEN find(searchstr, text, moved, backwards, matchCase)
       ELSE findcursor

(* faulty variant of outsideRegion: the bounds of the region are not compared *)
outsideRegionNullOnly(findcursor, regionCursor) == isNull(findcursor)

(* lines 166 and 177: the result is unusable *)
outsideRegion(findcursor, regionCursor) ==
    \/ isNull(findcursor)
    \/ ~(findcursor.anchor >= regionCursor.anchor
         /\ findcursor.position <= regionCursor.position)

(* lines 167-174: the search again from the far end of the region *)
wrapFind(text, regionCursor, backwards, matchCase, searchstr) ==
    LET from == IF backwards THEN regionCursor.position ELSE regionCursor.anchor
    IN find(searchstr, text, Cursor(from, from), backwards, matchCase)

(* lines 102-181 without the replacement: the cursor to install, or the    *)
(* null cursor when findReplace gives up                                   *)
searchFrom(text, c, region, backwards, matchCase, searchstr) ==
    LET regionCursor == regionBounds(region)
        selCursor == IF sittingOnMatch(text, c, searchstr, backwards, matchCase)
                     THEN stepOff(c, backwards)
                     ELSE c
        first == firstFind(text, selCursor, regionCursor, backwards, matchCase, searchstr)
        again == wrapFind(text, regionCursor, backwards, matchCase, searchstr)
    IN IF ~outsideRegion(first, regionCursor) THEN first
       ELSE IF ~outsideRegion(again, regionCursor) THEN again
       ELSE NullCursor

(* lines 109-110: the cursor after insertText and movePosition(Previous-   *)
(* Character, KeepAnchor, replacestr.length())                             *)
replacedSelection(c, replacestr) ==
    Cursor(selectionStart(c) + Len(replacestr), selectionStart(c))

(* faulty variant of giveUp: the selection is dropped before giving up *)
giveUpCollapsed(text, c, region) ==
    [ret |-> FALSE, doc |-> text, cur |-> Cursor(c.position, c.position),
     region |-> region, saved |-> FALSE]

(* lines 89-91 and 177-180: return false, nothing installed *)
giveUp(text, c, region) ==
    [ret |-> FALSE, doc |-> text, cur |-> c, region |-> region, saved |-> FALSE]

(* the whole call: the return value and the new document, text cursor and  *)
(* region cursor; hasFocus() is false since line 86                        *)
findReplaceResult(text, c, region, backwards, replace, matchCase, searchstr, replacestr) ==
    LET same == giveUp(text, c, region)
        s == selectionStart(c)
        e == selectionEnd(c)
        n == Len(replacestr)
        text2 == insertText(text, s, e, replacestr)
        sel == replacedSelection(c, replacestr)
        edited == editNotifies(c, s, e, n, c.position < c.anchor)
                  \/ setTextCursorNotifies(adjustCursor(c, s, e, n), sel)
        region2 == adjustCursor(region, s, e, n)
        found == searchFrom(text, c, region, backwards, matchCase, searchstr)
    IN IF searchstr = EmptyStr THEN same
       ELSE IF replace /\ sittingOnMatch(text, c, searchstr, backwards, matchCase)
       THEN [ret |-> TRUE, doc |-> text2, cur |-> sel,
             region |-> IF edited
                        THEN saveRegionBounds(text2, sel, region2, FALSE)
                        ELSE region2,
             saved |-> edited]
       ELSE IF isNull(found) THEN same
       ELSE [ret |-> TRUE, doc |-> text, cur |-> found,
             region |-> IF setTextCursorNotifies(c, found)
                        THEN saveRegionBounds(text, found, region, FALSE)
                        ELSE region,
             saved |-> setTextCursorNotifies(c, found)]

(* ------------------------------ replaceAll ----------------------------- *)

(* lines 191-193: the region is not used and the whole document is *)
wholeDocument(text, cursor, searchstr, replacestr) ==
    \/ cursor.anchor = cursor.position
    \/ selectedText(text, cursor) = searchstr
    \/ selectedText(text, cursor) = replacestr

(* lines 188-206: the locals cursor, end and count before the loop *)
replaceAllLocals(text, region, searchstr, replacestr) ==
    LET cursor == regionBounds(region)
    IN IF wholeDocument(text, cursor, searchstr, replacestr)
       THEN [cursor |-> Cursor(0, 0), end |-> Len(text), count |-> 0]
       ELSE [cursor |-> Cursor(Min(cursor.anchor, cursor.position),
                               Min(cursor.anchor, cursor.position)),
             end |-> cursor.position, count |-> 0]

(* faulty variant of loopBreaks: the end of the region is not compared *)
loopBreaksOnNull(cursor, end) == isNull(cursor)

(* line 209: the loop stops *)
loopBreaks(cursor, end) == isNull(cursor) \/ cursor.position > end

(* faulty variant of nextSearch: every turn searches from the start again *)
nextSearchFromStart(searchstr, text, cursor, matchCase) ==
    findString(searchstr, text, Cursor(0, 0), matchCase)

(* line 208: the search of one turn of the loop, from the loop's cursor *)
nextSearch(searchstr, text, cursor, matchCase) ==
    findString(searchstr, text, cursor, matchCase)

(* lines 217-220: the return value *)
replaceAllReturn(count) == count # 0

NoLoop == [cursor |-> NullCursor, end |-> 0, count |-> 0]

(* ------------------------------- the state ----------------------------- *)

NoCall == [op |-> "none", backwards |-> FALSE, replace |-> FALSE, matchCase |-> FALSE,
           searchstr |-> EmptyStr, replacestr |-> EmptyStr,
           doc0 |-> EmptyStr, cur0 |-> Cursor(0, 0), region0 |-> Cursor(0, 0),
           zw0 |-> FALSE]

NoZw == [set |-> FALSE, backwards |-> FALSE, matchCase |-> FALSE, searchstr |-> EmptyStr]

(* the widget after construction: an empty document, lines 52-55 *)
Init ==
    /\ doc = EmptyStr
    /\ cur = Cursor(0, 0)
    /\ m_regionCursor = Cursor(0, 0)
    /\ m_entireRegion = TRUE
    /\ focus = FALSE
    /\ pc = "idle"
    /\ call = NoCall
    /\ ret = FALSE
    /\ loop = NoLoop
    /\ prevZw = NoZw
    /\ saved = FALSE

(* the user types a character into the focused widget: it replaces the     *)
(* selection, and the widget's signals run saveRegionBounds                *)
typeChar(ch, limit) ==
    /\ pc = "idle"
    /\ LET s == selectionStart(cur)
           e == selectionEnd(cur)
           text2 == insertText(doc, s, e, <<ch>>)
           c2 == Cursor(s + 1, s + 1)
           region2 == saveRegionBounds(text2, c2, adjustCursor(m_regionCursor, s, e, 1), TRUE)
       IN /\ Len(text2) <= limit
          /\ doc' = text2
          /\ cur' = c2
          /\ m_regionCursor' = region2
          /\ m_entireRegion' = entireRegion(text2, region2)
          /\ focus' = TRUE
          /\ prevZw' = NoZw
          /\ saved' = TRUE
          /\ UNCHANGED <<pc, call, ret, loop>>

keyPress(ch) == typeChar(ch, MaxDocLen)

(* the user clicks or drags in the widget: it takes the focus and the      *)
(* text cursor becomes anchor a, position p                                *)
mouseSelect(a, p) ==
    /\ pc = "idle"
    /\ LET c2 == Cursor(a, p)
           region2 == IF setTextCursorNotifies(cur, c2)
                      THEN saveRegionBounds(doc, c2, m_regionCursor, TRUE)
                      ELSE m_regionCursor
       IN /\ cur' = c2
          /\ m_regionCursor' = region2
          /\ m_entireRegion' = IF setTextCursorNotifies(cur, c2)
                               THEN entireRegion(doc, region2)
                               ELSE m_entireRegion
          /\ focus' = TRUE
          /\ prevZw' = NoZw
          /\ saved' = setTextCursorNotifies(cur, c2)
          /\ UNCHANGED <<doc, pc, call, ret, loop>>

(* bool findReplace(backwards, replace, matchCase, searchstr, replacestr)  *)
findReplace(backwards, replace, matchCase, searchstr, replacestr) ==
    /\ pc = "idle"
    /\ \E r \in {findReplaceResult(doc, cur, m_regionCursor, backwards, replace,
                                  matchCase, searchstr, replacestr)} :
       /\ (Len(r.doc) <= MaxDocLen \/ Len(r.doc) <= Len(doc))
       /\ doc' = r.doc
       /\ cur' = r.cur
       /\ m_regionCursor' = r.region
       /\ m_entireRegion' = IF r.saved THEN entireRegion(r.doc, r.region)
                            ELSE m_entireRegion
       /\ focus' = FALSE
       /\ saved' = r.saved
       /\ ret' = r.ret
       /\ pc' = "findReplace"
       /\ call' = [op |-> "findReplace", backwards |-> backwards, replace |-> replace,
                   matchCase |-> matchCase, searchstr |-> searchstr,
                   replacestr |-> replacestr, doc0 |-> doc, cur0 |-> cur,
                   region0 |-> m_regionCursor, zw0 |-> prevZw.set /\ prevZw.backwards = backwards
                                 /\ prevZw.matchCase = matchCase /\ prevZw.searchstr = searchstr]
       /\ prevZw' = IF r.ret /\ r.doc = doc /\ ~hasSelection(r.cur) /\ atBlockEnd(doc, r.cur)
                    THEN [set |-> TRUE, backwards |-> backwards, matchCase |-> matchCase,
                          searchstr |-> searchstr]
                    ELSE NoZw
       /\ UNCHANGED loop

(* replaceAll up to its loop, lines 188-206 *)
replaceAllBegin(searchstr, replacestr, matchCase) ==
    /\ pc = "idle"
    /\ Len(doc) + Len(doc) * Max(Len(replacestr) - Len(searchstr), 0) <= MaxDocLen
    /\ pc' = "replaceAll"
    /\ loop' = replaceAllLocals(doc, m_regionCursor, searchstr, replacestr)
    /\ call' = [op |-> "replaceAll", backwards |-> FALSE, replace |-> TRUE,
                matchCase |-> matchCase, searchstr |-> searchstr,
                replacestr |-> replacestr, doc0 |-> doc, cur0 |-> cur,
                region0 |-> m_regionCursor, zw0 |-> FALSE]
    /\ prevZw' = NoZw
    /\ saved' = FALSE
    /\ UNCHANGED <<doc, cur, m_regionCursor, m_entireRegion, focus, ret>>

(* one turn of the loop, lines 207-216, or its end, lines 217-220 *)
replaceAllStep ==
    /\ pc = "replaceAll"
    /\ LET cursor == nextSearch(call.searchstr, doc, loop.cursor, call.matchCase)
           s == cursor.anchor
           e == cursor.position
           n == Len(call.replacestr)
           text2 == insertText(doc, s, e, call.replacestr)
           c2 == adjustCursor(cur, s, e, n)
           notified == editNotifies(cur, s, e, n, FALSE)
           region2 == IF notified
                      THEN saveRegionBounds(text2, c2, adjustCursor(m_regionCursor, s, e, n), focus)
                      ELSE adjustCursor(m_regionCursor, s, e, n)
       IN /\ IF loopBreaks(cursor, loop.end)
             THEN /\ pc' = "replaceAllDone"
                  /\ ret' = replaceAllReturn(loop.count)
                  /\ loop' = [loop EXCEPT !.cursor = cursor]
                  /\ saved' = FALSE
                  /\ UNCHANGED <<doc, cur, m_regionCursor, m_entireRegion>>
             ELSE /\ doc' = text2
                  /\ cur' = c2
                  /\ m_regionCursor' = region2
                  /\ m_entireRegion' = IF notified THEN entireRegion(text2, region2)
                                       ELSE m_entireRegion
                  /\ loop' = [cursor |-> Cursor(s + n, s + n),
                              end |-> loop.end + (n - Len(call.searchstr)),
                              count |-> loop.count + 1]
                  /\ saved' = notified
                  /\ UNCHANGED <<pc, ret>>
          /\ UNCHANGED <<focus, call, prevZw>>

(* the call returns to the caller *)
return ==
    /\ pc \in {"findReplace", "replaceAllDone"}
    /\ pc' = "idle"
    /\ call' = NoCall
    /\ loop' = NoLoop
    /\ ret' = FALSE
    /\ saved' = FALSE
    /\ UNCHANGED <<doc, cur, m_regionCursor, m_entireRegion, focus, prevZw>>

Next ==
    \/ \E ch \in TypedChars : keyPress(ch)
    \/ \E a \in 0..Len(doc), p \in 0..Len(doc) : mouseSelect(a, p)
    \/ \E backwards \in BOOLEAN, matchCase \in BOOLEAN, searchstr \in SearchStrs :
           findReplace(backwards, FALSE, matchCase, searchstr, EmptyStr)
    \/ \E backwards \in BOOLEAN, matchCase \in BOOLEAN, searchstr \in SearchStrs,
          replacestr \in ReplaceStrs :
           findReplace(backwards, TRUE, matchCase, searchstr, replacestr)
    \/ \E searchstr \in SearchStrs, replacestr \in ReplaceStrs, matchCase \in BOOLEAN :
           replaceAllBegin(searchstr, replacestr, matchCase)
    \/ replaceAllStep
    \/ return

Spec == Init /\ [][Next]_vars

(* find alone, on documents one character longer *)
keyPressWide(ch) == typeChar(ch, MaxDocLen + 1)

NextFind ==
    \/ \E ch \in TypedChars : keyPressWide(ch)
    \/ \E a \in 0..Len(doc), p \in 0..Len(doc) : mouseSelect(a, p)
    \/ \E backwards \in BOOLEAN, matchCase \in BOOLEAN, searchstr \in SearchStrs :
           findReplace(backwards, FALSE, matchCase, searchstr, EmptyStr)
    \/ return

SpecFind == Init /\ [][NextFind]_vars

(* ------------------------------ properties ----------------------------- *)

(* a call of findReplace has just returned *)
FindReturned == pc = "findReplace"

(* region is a non-empty range that is not the whole of text *)
ProperRegion(text, region) ==
    /\ hasSelection(region)
    /\ ~(selectionStart(region) = 0 /\ selectionEnd(region) = Len(text))

(* c lies inside the normalized bounds of region *)
Within(c, region) ==
    /\ selectionStart(c) >= regionBounds(region).anchor
    /\ selectionEnd(c) <= regionBounds(region).position

(* C1: whenever findReplace with replace = false returns true, the         *)
(* selection it installed as the text cursor lies wholly inside the        *)
(* normalized bounds the region had when it was called                     *)
C1_FindInsideRegion ==
    (FindReturned /\ ~call.replace /\ ret) => Within(cur, call.region0)

(* C1 witness: a backward find moved the cursor to a non-empty match       *)
(* inside a region that is a proper part of the document                   *)
C1_Witness ==
    /\ FindReturned /\ ~call.replace /\ ret /\ call.backwards
    /\ ProperRegion(call.doc0, call.region0)
    /\ hasSelection(cur) /\ cur # call.cur0
    /\ selectionStart(call.cur0) < selectionStart(cur)

(* C6: a find (replace = false) leaves the region cursor as it was when    *)
(* the region is a non-empty proper part of the document                   *)
C6_FindKeepsRegion ==
    (FindReturned /\ ~call.replace /\ ProperRegion(call.doc0, call.region0))
        => m_regionCursor = call.region0

(* C6 witness: the find moved the text cursor, so that the notifications   *)
(* ran saveRegionBounds, and the proper region is still there              *)
C6_Witness ==
    /\ FindReturned /\ ~call.replace /\ ret /\ saved
    /\ cur # call.cur0
    /\ ProperRegion(call.doc0, call.region0)
    /\ ~Within(call.cur0, call.region0)

(* C8: whenever findReplace returns false the text cursor and the          *)
(* document are what they were before the call                             *)
C8_FailedFindChangesNothing ==
    (FindReturned /\ ~ret) => (cur = call.cur0 /\ doc = call.doc0)

(* C8 witness: a search for a non-empty string gave up after the retry     *)
(* from the far end of the region, with a selection in place               *)
C8_Witness ==
    /\ FindReturned /\ ~ret
    /\ call.searchstr # EmptyStr
    /\ hasSelection(cur)
    /\ doc # EmptyStr

(* needle stands at offset i of text *)
OccursAt(text, needle, i, ci) ==
    /\ i + Len(needle) <= Len(text)
    /\ \A k \in 1..Len(needle) :
          IF ci THEN Fold(text[i + k]) = Fold(needle[k]) ELSE text[i + k] = needle[k]

(* the offsets of the occurrences of needle that lie wholly in lo..hi *)
Occurrences(text, needle, lo, hi, ci) ==
    {i \in lo..hi : i + Len(needle) <= hi /\ OccursAt(text, needle, i, ci)}

(* a non-empty search string without regular-expression operators *)
Literal(searchstr) ==
    /\ searchstr # EmptyStr
    /\ \A i \in 1..Len(searchstr) : searchstr[i] \notin {".", "*"}

(* the pattern matches str as a whole *)
WholeMatch(searchstr, str, ci) ==
    /\ isValid(searchstr)
    /\ MatchHere(Atoms(searchstr, 1), 1, str, 0, ci) = Len(str)

(* the text before lo and the text after hi of before are those of after *)
SameOutside(before, after, lo, hi) ==
    /\ Len(after) >= lo + (Len(before) - hi)
    /\ SubSeq(after, 1, lo) = SubSeq(before, 1, lo)
    /\ SubSeq(after, Len(after) - (Len(before) - hi) + 1, Len(after))
          = SubSeq(before, hi + 1, Len(before))

ReplaceAllReturned == pc = "replaceAllDone"

(* C2 as stated: when replaceAll returns, the text before the start and    *)
(* after the end of the region held at the call is unchanged, for every    *)
(* region, search string and replacement                                   *)
C2_AsStated ==
    ReplaceAllReturned
        => SameOutside(call.doc0, doc, regionBounds(call.region0).anchor,
                       regionBounds(call.region0).position)

(* C2 amended: the same, unless the region is empty or its selected text   *)
(* equals the search string or the replacement string; then the whole      *)
(* document is searched                                                    *)
C2_ReplaceAllInsideRegion ==
    (ReplaceAllReturned
     /\ ~wholeDocument(call.doc0, regionBounds(call.region0), call.searchstr,
                       call.replacestr))
        => SameOutside(call.doc0, doc, regionBounds(call.region0).anchor,
                       regionBounds(call.region0).position)

(* C2 witness: replacements were made inside a proper region while an      *)
(* occurrence outside of it stayed                                         *)
C2_Witness ==
    /\ ReplaceAllReturned /\ ret
    /\ ProperRegion(call.doc0, call.region0)
    /\ ~wholeDocument(call.doc0, regionBounds(call.region0), call.searchstr,
                      call.replacestr)
    /\ Occurrences(call.doc0, call.searchstr, regionBounds(call.region0).position,
                   Len(call.doc0), ~call.matchCase) # {}

(* C3: for a literal search string and replace = false, findReplace        *)
(* returns false only when no occurrence lies wholly inside the region;    *)
(* and when none lies between the cursor and the end of the region in the  *)
(* direction of the search, it selects the first occurrence met from the   *)
(* other end of the region                                                 *)
C3_WrapsAround ==
    LET lo == regionBounds(call.region0).anchor
        hi == regionBounds(call.region0).position
        ci == ~call.matchCase
        inside == Occurrences(call.doc0, call.searchstr, lo, hi, ci)
        ahead == IF call.backwards
                 THEN Occurrences(call.doc0, call.searchstr, lo,
                                  Min(hi, selectionStart(call.cur0)), ci)
                 ELSE Occurrences(call.doc0, call.searchstr,
                                  Max(lo, selectionEnd(call.cur0)), hi, ci)
        first == IF call.backwards
                 THEN CHOOSE i \in inside : \A j \in inside : j <= i
                 ELSE CHOOSE i \in inside : \A j \in inside : i <= j
    IN (FindReturned /\ ~call.replace /\ Literal(call.searchstr))
        => /\ ret <=> inside # {}
           /\ (inside # {} /\ ahead = {})
                 => cur = Cursor(first, first + Len(call.searchstr))

(* C4: with a pattern that matches the empty string and a region of more   *)
(* than one line, a find that starts on the zero-width match at a line end *)
(* which the same find left there does not select it again                 *)
C4_NotStuckOnEmptyMatch ==
    LET lo == regionBounds(call.region0).anchor
        hi == regionBounds(call.region0).position
    IN (/\ FindReturned /\ ~call.replace /\ call.zw0
        /\ WholeMatch(call.searchstr, EmptyStr, FALSE)
        /\ \E i \in (lo + 1)..hi : call.doc0[i] = NL)
        => ~(ret /\ cur = call.cur0)

(* the selection matches the pattern: the pattern is found in the selected *)
(* text, with the case sensitivity the caller asked for                    *)
SelectionMatches ==
    hasMatch(match(call.searchstr, selectedText(call.doc0, call.cur0), 0, ~call.matchCase))

(* C5: when findReplace is called with replace = true and the (non-empty)  *)
(* selection matches the pattern, the selection is replaced by replacestr, the call  *)
(* returns true and the text cursor selects exactly the inserted text      *)
C5_ReplaceSelectsInserted ==
    LET s == selectionStart(call.cur0)
        e == selectionEnd(call.cur0)
    IN (/\ FindReturned /\ call.replace /\ call.searchstr # EmptyStr
        /\ hasSelection(call.cur0) /\ SelectionMatches)
        => /\ ret
           /\ doc = insertText(call.doc0, s, e, call.replacestr)
           /\ selectionStart(cur) = s
           /\ selectionEnd(cur) = s + Len(call.replacestr)

(* C9: after every run of saveRegionBounds the region is not empty unless  *)
(* the document is; with the focus and a selection without white space it  *)
(* is the whole document; and m_entireRegion is true exactly when the      *)
(* region spans the document from start to end, in either direction        *)
C9_RegionAfterSave ==
    saved
        => /\ doc # EmptyStr => hasSelection(m_regionCursor)
           /\ (focus /\ ~containsSpace(selectedText(doc, cur)))
                 => regionBounds(m_regionCursor) = Cursor(0, Len(doc))
           /\ m_entireRegion
                 <=> regionBounds(m_regionCursor) = Cursor(0, Len(doc))

(* C10: whenever findReplace with replace = true changes the document,     *)
(* the text it removed is one whole match of the pattern                   *)
C10_ReplaceRemovesOnlyMatch ==
    (FindReturned /\ call.replace /\ doc # call.doc0)
        => WholeMatch(call.searchstr, selectedText(call.doc0, call.cur0), ~call.matchCase)

(* what is left of the document after the place the next search of the    *)
(* loop starts from                                                        *)
LoopVariant == Len(doc) - selectionEnd(loop.cursor)

(* C7: replaceAll terminates for every search string, replacement and      *)
(* document: each turn of the loop that does not leave it makes the        *)
(* natural number LoopVariant smaller; and it returns true exactly when it *)
(* made a replacement                                                      *)
C7_ReplaceAllTerminates ==
    [][/\ (pc = "replaceAll" /\ pc' = "replaceAll")
           => (LoopVariant' < LoopVariant /\ LoopVariant' >= 0)
       /\ pc' = "replaceAllDone"
           => /\ pc = "replaceAll"
              /\ ret' <=> loop'.count >= 1
              /\ loop'.count >= 1 <=> doc' # call'.doc0]_vars

(* C7 witness: a replaceAll whose replacement contains the search string   *)
(* has returned after a replacement that made the document longer          *)
C7_Witness ==
    /\ ReplaceAllReturned /\ ret /\ loop.count >= 1
    /\ call.searchstr = <<"a">> /\ call.replacestr = <<" ", "a">>
    /\ Len(doc) > Len(call.doc0)
====
